---- MODULE Spec2Model ----
(***************************************************************************)
(* Model of the staging-to-3NF transformation of the job-postings          *)
(* pipeline (src/src/transformation.py) and of the part of the pipeline    *)
(* orchestrator that calls it (src/src/pipeline.py).                       *)
(*                                                                         *)
(* Text values are sequences of one-character strings, so that TRIM,       *)
(* LOWER, REGEXP_REPLACE and str.split are computed character by           *)
(* character.  SQL NULL / Python None is the value NULL below.             *)
(***************************************************************************)
EXTENDS Integers, Sequences, FiniteSets, TLC

VARIABLES
    db,          \* the committed contents of the store, one field per table
    tx,          \* the store as seen by the open connection (uncommitted work)
    open,        \* number of connections currently held
    pc,          \* the method run_transformation is executing
    step,        \* position inside that method
    deleted,     \* tables deleted so far by the purge transaction, in order
    commits,     \* the stage of every commit of the current run, in order
    offset,      \* OFFSET of the next batch
    total_rows,  \* the total computed at the start of a batched stage
    reported,    \* sum of the row counts given to the progress bar
    runs,        \* number of runs started
    result,      \* value returned by JobPipeline.run_transformation
    skills_by_category, \* the local of populate_skill_categories_and_skills
    snap,        \* dimension contents left by the previous complete run
    fact_snap,   \* fact and bridge contents left by the previous complete run
    loc_arg,     \* extract_location_components: the argument location_string
    country_arg, \* extract_location_components: the argument country
    loc_result,  \* extract_location_components: what the call returned
    sql_file,    \* execute_sql_file: the text of the file at filepath
    sql_pc,      \* execute_sql_file: where the call is
    pending,     \* execute_sql_file: the pieces of the split still to visit
    executed,    \* the statements executed on the open connection, in order
    schema,      \* the statements committed to the store, in order
    sql_commits, \* number of commits made by the call
    sql_result,  \* execute_sql_file: the value returned
    only_transformation, \* JobPipeline: the field set by the constructor
    run_pc,      \* JobPipeline.run: where the call is
    phases,      \* the phases run has finished, in order, with their outcome
    df,          \* run_ingestion: the rows read from the CSV file
    loaded,      \* number of rows load_to_staging has appended
    closed,      \* db_config.close() has been called
    run_result   \* JobPipeline.run: the value returned

\* the state of a run of the transformation
transformation_vars ==
    <<db, tx, open, pc, step, deleted, commits, offset, total_rows, reported,
      runs, result, skills_by_category, snap, fact_snap>>

\* the frame of a direct call of extract_location_components
normalizer_vars == <<loc_arg, country_arg, loc_result>>

\* the frame of a call of DatabaseConfig.execute_sql_file and its effect
sqlfile_vars ==
    <<sql_file, sql_pc, pending, executed, schema, sql_commits, sql_result>>

\* the fields and the frame of a call of JobPipeline.run
pipeline_vars ==
    <<only_transformation, run_pc, phases, df, loaded, closed, run_result>>

\* what a step of the transformation leaves alone
other_vars == <<normalizer_vars, sqlfile_vars, pipeline_vars>>

\* what a call of extract_location_components leaves alone
outside_normalizer == <<transformation_vars, sqlfile_vars, pipeline_vars>>

\* what a call of execute_sql_file leaves alone
outside_sqlfile == <<transformation_vars, normalizer_vars, pipeline_vars>>

vars == <<transformation_vars, other_vars>>

-----------------------------------------------------------------------------
(* Bounds of the model *)

\* number of rows of the staging snapshot
MaxRows == 2

\* number of times the caller runs the transformation
MaxRuns == 2

\* rows per batch of populate_jobs (10000 in the source, scaled down so
\* that batch boundaries fall inside the staging snapshots explored)
BATCH_SIZE == 2

\* populate_job_skills uses batches of BATCH_SIZE * SKILL_BATCH_FACTOR rows
\* (factor 10 in the source, scaled down for the same reason)
SKILL_BATCH_FACTOR == 1

\* length of the location strings given to extract_location_components
MaxLocationLen == 5

\* length of the SQL files given to execute_sql_file
MaxFileLen == 4

\* rows per chunk of load_to_staging (10000 in the source, scaled down so
\* that a load takes more than one chunk)
batch_size == 1

-----------------------------------------------------------------------------
(* Text *)

NULL == <<"<NULL>">>

Unknown == <<"U", "n", "k", "n", "o", "w", "n">>

EmptyStr == <<>>

IsNull(v) == v = NULL

Coalesce(v, d) == IF IsNull(v) THEN d ELSE v

\* SQL equality used in join and conflict predicates: never true on a NULL
SqlEq(a, b) == ~IsNull(a) /\ ~IsNull(b) /\ a = b

UpperChars == <<"A", "B", "C", "D", "E", "F", "G", "H", "I", "J", "K", "L", "M",
                "N", "O", "P", "Q", "R", "S", "T", "U", "V", "W", "X", "Y", "Z">>

LowerChars == <<"a", "b", "c", "d", "e", "f", "g", "h", "i", "j", "k", "l", "m",
                "n", "o", "p", "q", "r", "s", "t", "u", "v", "w", "x", "y", "z">>

LowerChar(c) ==
    IF \E i \in 1..Len(UpperChars) : UpperChars[i] = c
    THEN LowerChars[CHOOSE i \in 1..Len(UpperChars) : UpperChars[i] = c]
    ELSE c

\* LOWER(text) / str.lower()
Lower(s) == IF IsNull(s) THEN NULL ELSE [i \in 1..Len(s) |-> LowerChar(s[i])]

\* characters removed by PostgreSQL TRIM(text): the space only
SqlBlank == {" "}

\* characters removed by str.strip() and matched by the regex class \s
Whitespace == {" ", "\t", "\n"}

RECURSIVE LStrip(_, _)
LStrip(s, ws) ==
    IF s # <<>> /\ Head(s) \in ws THEN LStrip(Tail(s), ws) ELSE s

RECURSIVE RStrip(_, _)
RStrip(s, ws) ==
    IF s # <<>> /\ s[Len(s)] \in ws THEN RStrip(SubSeq(s, 1, Len(s) - 1), ws) ELSE s

\* TRIM(text)
SqlTrim(s) == IF IsNull(s) THEN NULL ELSE RStrip(LStrip(s, SqlBlank), SqlBlank)

\* str.strip()
PyStrip(s) == RStrip(LStrip(s, Whitespace), Whitespace)

HasPrefixCI_CaseSensitive(s, p) ==
    /\ Len(s) >= Len(p)
    /\ SubSeq(s, 1, Len(p)) = p

\* s starts with the lowercase keyword p, letter case ignored (flag 'i')
HasPrefixCI(s, p) ==
    /\ Len(s) >= Len(p)
    /\ Lower(SubSeq(s, 1, Len(p))) = p

\* the keyword of '^(via|melalui)\s+' matched at the start of s, or <<>>
ViaKeyword(s) ==
    IF HasPrefixCI(s, <<"v", "i", "a">>) THEN <<"v", "i", "a">>
    ELSE IF HasPrefixCI(s, <<"m", "e", "l", "a", "l", "u", "i">>)
         THEN <<"m", "e", "l", "a", "l", "u", "i">>
         ELSE <<>>

\* REGEXP_REPLACE(s, '^(via|melalui)\s+', '', 'i')
RegexpReplaceVia(s) ==
    IF IsNull(s) THEN NULL
    ELSE LET k == Len(ViaKeyword(s))
             rest == SubSeq(s, k + 1, Len(s))
         IN IF k > 0 /\ rest # <<>> /\ Head(rest) \in Whitespace
            THEN LStrip(rest, Whitespace)
            ELSE s

\* TRIM(REGEXP_REPLACE(job_via, ...)): the cleaned platform name
CleanPlatform(s) == SqlTrim(RegexpReplaceVia(s))

\* str.split(','): the segments between commas, at least one
RECURSIVE SplitComma(_)
SplitComma(s) ==
    IF \E i \in 1..Len(s) : s[i] = ","
    THEN LET i == CHOOSE i \in 1..Len(s) :
                      s[i] = "," /\ \A j \in 1..(i - 1) : s[j] # ","
         IN <<SubSeq(s, 1, i - 1)>> \o SplitComma(SubSeq(s, i + 1, Len(s)))
    ELSE <<s>>

\* str.split(sep): the pieces between the separators, at least one
RECURSIVE SplitOn(_, _)
SplitOn(s, sep) ==
    IF \E i \in 1..Len(s) : s[i] = sep
    THEN LET i == CHOOSE i \in 1..Len(s) :
                      s[i] = sep /\ \A j \in 1..(i - 1) : s[j] # sep
         IN <<SubSeq(s, 1, i - 1)>> \o SplitOn(SubSeq(s, i + 1, Len(s)), sep)
    ELSE <<s>>

NoneIfEmpty_Keep(p) == p

\* `parts[i] if parts[i] else None`
NoneIfEmpty(p) == IF p = <<>> THEN NULL ELSE p

\* DataTransformation.extract_location_components
extract_location_components(location_string, country) ==
    IF IsNull(location_string) \/ location_string = <<>>
    THEN [city |-> NULL, state_province |-> NULL, country |-> country]
    ELSE LET raw == SplitComma(PyStrip(location_string))
             parts == [i \in 1..Len(raw) |-> PyStrip(raw[i])]
         IN IF Len(parts) >= 3
            THEN [city |-> NoneIfEmpty(parts[1]),
                  state_province |-> NoneIfEmpty(parts[2]),
                  country |-> country]
            ELSE IF Len(parts) = 2
            THEN [city |-> NoneIfEmpty(parts[1]),
                  state_province |-> NoneIfEmpty(parts[2]),
                  country |-> country]
            ELSE IF Len(parts) = 1
            THEN [city |-> NoneIfEmpty(parts[1]),
                  state_province |-> NULL,
                  country |-> country]
            ELSE [city |-> NULL, state_province |-> NULL, country |-> country]

\* a canonical enumeration of a finite set
RECURSIVE SetToSeq(_)
SetToSeq(S) ==
    IF S = {} THEN <<>>
    ELSE LET x == CHOOSE x \in S : TRUE IN <<x>> \o SetToSeq(S \ {x})

\* all enumerations of a finite set
RECURSIVE Orderings(_)
Orderings(S) ==
    IF S = {} THEN {<<>>}
    ELSE UNION {{<<x>> \o t : t \in Orderings(S \ {x})} : x \in S}

Range(s) == {s[i] : i \in 1..Len(s)}

Min(a, b) == IF a < b THEN a ELSE b

-----------------------------------------------------------------------------
(* The staging snapshot *)

NullList == <<NULL>>

NoTyped == [shape |-> "null", items |-> <<>>]

Dict(items) == [shape |-> "dict", items |-> items]

\* a JSONB value that is not an object (an array)
Other == [shape |-> "other", items |-> <<>>]

sA == <<"a">>
sB == <<"b">>
sS == <<"s">>
Date1 == <<"2023-01-01">>
Date2 == <<"2023-06-15">>
CountryX == <<"X">>
Cat1 == <<"c", "1">>
Cat2 == <<"c", "2">>
Py == <<"p", "y">>
Sq == <<"s", "q">>

Row1 ==
    [job_title |-> sA, job_title_short |-> sS, job_posted_date |-> Date1,
     company_name |-> <<"A">>, job_location |-> <<"P", ",", " ", "F">>,
     job_country |-> CountryX, job_via |-> <<"v", "i", "a", " ", "L">>,
     job_schedule_type |-> <<"F", " ">>,
     job_skills |-> <<<<"P", "y">>, Sq>>,
     job_type_skills |-> Dict(<<[category |-> Cat1, skills |-> <<<<"P", "y">>>>]>>)]

Row2 ==
    [job_title |-> sA, job_title_short |-> sS, job_posted_date |-> Date1,
     company_name |-> NULL, job_location |-> NULL,
     job_country |-> CountryX, job_via |-> <<"L">>,
     job_schedule_type |-> NULL,
     job_skills |-> <<Py, <<" ", "P", "Y">>>>,
     job_type_skills |-> Dict(<<[category |-> Cat2, skills |-> <<Py>>]>>)]

Row3 ==
    [job_title |-> NULL, job_title_short |-> sS, job_posted_date |-> Date1,
     company_name |-> <<" ", "A">>, job_location |-> Unknown,
     job_country |-> CountryX, job_via |-> <<"V", "I", "A", " ", "L">>,
     job_schedule_type |-> <<"F">>,
     job_skills |-> <<Sq>>,
     job_type_skills |-> NoTyped]

Row4 ==
    [job_title |-> NULL, job_title_short |-> NULL, job_posted_date |-> Date2,
     company_name |-> <<"A">>, job_location |-> <<"P">>,
     job_country |-> NULL, job_via |-> NULL,
     job_schedule_type |-> <<" ">>,
     job_skills |-> NullList,
     job_type_skills |-> Other]

Row5 ==
    [job_title |-> sB, job_title_short |-> NULL, job_posted_date |-> NULL,
     company_name |-> Unknown, job_location |-> <<"P">>,
     job_country |-> Unknown, job_via |-> <<"v", "i", "a", " ">>,
     job_schedule_type |-> NULL,
     job_skills |-> <<Py>>,
     job_type_skills |-> Dict(<<[category |-> Cat1, skills |-> <<Sq>>],
                                [category |-> Cat2, skills |-> <<Sq, <<>>>>]>>)]

Row6 ==
    [job_title |-> sB, job_title_short |-> sS, job_posted_date |-> Date2,
     company_name |-> <<" ">>, job_location |-> <<"P">>,
     job_country |-> NULL,
     job_via |-> <<"m", "e", "l", "a", "l", "u", "i", " ", "L">>,
     job_schedule_type |-> <<"F">>,
     job_skills |-> <<Sq>>,
     job_type_skills |-> Dict(<<[category |-> Cat2, skills |-> NullList],
                                [category |-> Cat1, skills |-> <<NULL, Py>>]>>)]

\* the rows a staging snapshot is drawn from
StagingRows == {Row1, Row2, Row3, Row4, Row5, Row6}

\* the staging snapshots explored: 1..MaxRows rows, the row identifier
\* (column id) of a row being its position
ShortSnapshots == UNION {[1..n -> StagingRows] : n \in 1..MaxRows}

\* a snapshot of more rows than a batch of populate_jobs, the second and
\* third of its rows having the same country and full location
LongSnapshot == <<Row1, Row2, Row3>>

StagingSnapshots == ShortSnapshots \cup {LongSnapshot}

-----------------------------------------------------------------------------
(* The store *)

Tables == {"staging_jobs", "job_skills", "jobs", "skills", "skill_categories",
           "companies", "locations", "platforms", "schedule_types"}

\* job_skills keeps its rows in a sequence so that repeated (job, skill)
\* pairs are visible; staging_jobs is the sequence of its rows by id; the
\* other tables are sets of rows, each row carrying its surrogate id
EmptyTable(t) == IF t \in {"job_skills", "staging_jobs"} THEN <<>> ELSE {}

EmptyStore(stg) ==
    [staging_jobs |-> stg, job_skills |-> <<>>, jobs |-> {}, skills |-> {},
     skill_categories |-> {}, companies |-> {}, locations |-> {},
     platforms |-> {}, schedule_types |-> {}]

\* the absent (NULL) surrogate id
NoId == 0

MaxId(T) == IF T = {} THEN 0 ELSE CHOOSE m \in {r.id : r \in T} : \A r \in T : r.id <= m

\* surrogate ids are drawn from an increasing sequence; only their order and
\* their distinctness are observable
NextId(T) == MaxId(T) + 1

\* the unique constraint on the columns keys: SQL equality, so that a NULL
\* in any of the columns never conflicts
Conflicts(T, r, keys) == \E x \in T : \A k \in keys : SqlEq(x[k], r[k])

\* INSERT ... ON CONFLICT (keys) DO NOTHING of the rows of the sequence rows
RECURSIVE InsertIfAbsent(_, _, _)
InsertIfAbsent(T, rows, keys) ==
    IF rows = <<>> THEN T
    ELSE LET r == Head(rows)
             T1 == IF Conflicts(T, r, keys) THEN T
                   ELSE T \cup {[id |-> NextId(T)] @@ r}
         IN InsertIfAbsent(T1, Tail(rows), keys)

StagingRowSet(t) == Range(t.staging_jobs)

-----------------------------------------------------------------------------
(* Dimension populators: each maps the store seen by its connection to the
   store after its statements *)

\* populate_companies: INSERT ... SELECT DISTINCT TRIM(COALESCE(company_name,
\* 'Unknown')) ... WHERE TRIM(company_name) != '' ON CONFLICT DO NOTHING.
\* A NULL company_name makes the WHERE predicate NULL, so the row is dropped.
CompanyCandidates(t) ==
    {SqlTrim(Coalesce(r.company_name, Unknown)) :
        r \in {x \in StagingRowSet(t) :
                  ~IsNull(x.company_name) /\ SqlTrim(x.company_name) # EmptyStr}}

populate_companies(t) ==
    [t EXCEPT !.companies =
        InsertIfAbsent(@, [i \in 1..Cardinality(CompanyCandidates(t)) |->
                              [company_name |-> SetToSeq(CompanyCandidates(t))[i]]],
                       {"company_name"})]

\* SELECT DISTINCT job_location, job_country FROM staging_jobs
LocationPairs(t) ==
    {<<r.job_location, r.job_country>> : r \in StagingRowSet(t)}

\* the row inserted for one (job_location, job_country) pair
LocationRow(pair) ==
    LET components == extract_location_components(pair[1], pair[2])
    IN [main_city |-> components.city,
        main_state_province |-> components.state_province,
        country |-> Coalesce(components.country, Unknown),
        full_location |-> Coalesce(pair[1], Unknown)]

LocationKeys == {"main_city", "main_state_province", "country", "full_location"}

populate_locations(t) ==
    LET locations == SetToSeq(LocationPairs(t))
    IN [t EXCEPT !.locations =
           InsertIfAbsent(@, [i \in 1..Len(locations) |-> LocationRow(locations[i])],
                          LocationKeys)]

\* populate_platforms: the cleaned names of the non-NULL, non-blank job_via
PlatformCandidates(t) ==
    {CleanPlatform(r.job_via) :
        r \in {x \in StagingRowSet(t) :
                  ~IsNull(x.job_via) /\ SqlTrim(x.job_via) # EmptyStr}}

populate_platforms(t) ==
    [t EXCEPT !.platforms =
        InsertIfAbsent(@, [i \in 1..Cardinality(PlatformCandidates(t)) |->
                              [platform_name |-> SetToSeq(PlatformCandidates(t))[i]]],
                       {"platform_name"})]

\* populate_schedule_types
ScheduleTypeCandidates(t) ==
    {SqlTrim(r.job_schedule_type) :
        r \in {x \in StagingRowSet(t) :
                  ~IsNull(x.job_schedule_type)
                  /\ SqlTrim(x.job_schedule_type) # EmptyStr}}

populate_schedule_types(t) ==
    [t EXCEPT !.schedule_types =
        InsertIfAbsent(@, [i \in 1..Cardinality(ScheduleTypeCandidates(t)) |->
                              [schedule_type_name |->
                                  SetToSeq(ScheduleTypeCandidates(t))[i]]],
                       {"schedule_type_name"})]

-----------------------------------------------------------------------------
(* Skill taxonomy *)

\* SELECT DISTINCT job_type_skills ... WHERE job_type_skills IS NOT NULL
SkillTypeValues(t) ==
    {r.job_type_skills : r \in {x \in StagingRowSet(t) : x.job_type_skills.shape # "null"}}

IsListValue_NoCheck(skills) == TRUE

\* isinstance(skills, list): a category's value is a list, a value that is
\* not one being the JSON null here
IsListValue(skills) == skills # NullList

\* the lowercase-stripped names of the truthy elements (`if skill:`) of one
\* list of a typed-skills value
CleanSkills(skills) ==
    {PyStrip(Lower(skills[i])) :
        i \in {k \in 1..Len(skills) : ~IsNull(skills[k]) /\ skills[k] # EmptyStr}}

\* the names one item adds to its category's set
ItemSkills(item) ==
    IF IsListValue(item.skills) THEN CleanSkills(item.skills) ELSE {}

\* one (category, skills) item of a row added to the insertion-ordered
\* dictionary acc, a sequence of [category, skills]
AddItem(acc, item) ==
    IF \E i \in 1..Len(acc) : acc[i].category = item.category
    THEN [i \in 1..Len(acc) |->
             IF acc[i].category = item.category
             THEN [acc[i] EXCEPT !.skills = @ \cup ItemSkills(item)]
             ELSE acc[i]]
    ELSE Append(acc, [category |-> item.category, skills |-> ItemSkills(item)])

RECURSIVE AddItems(_, _)
AddItems(acc, items) ==
    IF items = <<>> THEN acc ELSE AddItems(AddItem(acc, Head(items)), Tail(items))

\* the loop over skill_type_rows, the rows taken in the order the store
\* returned them
RECURSIVE CollectSkills(_, _)
CollectSkills(acc, rows) ==
    IF rows = <<>> THEN acc
    ELSE CollectSkills(
             IF Head(rows).shape = "dict" /\ Head(rows).items # <<>>
             THEN AddItems(acc, Head(rows).items) ELSE acc,
             Tail(rows))

\* the loop over skill_type_rows raises: `for skill in skills` is reached
\* with a value that cannot be iterated (TypeError)
CollectRaises(rows) ==
    \E i \in 1..Len(rows) :
        /\ rows[i].shape = "dict"
        /\ \E k \in 1..Len(rows[i].items) :
              /\ IsListValue(rows[i].items[k].skills)
              /\ rows[i].items[k].skills = NullList

\* INSERT INTO skill_categories ... ON CONFLICT DO NOTHING, per category
InsertCategories(t, byCat) ==
    LET all_categories == SetToSeq({byCat[i].category : i \in 1..Len(byCat)})
    IN [t EXCEPT !.skill_categories =
           InsertIfAbsent(@, [i \in 1..Len(all_categories) |->
                                 [category_name |-> all_categories[i]]],
                          {"category_name"})]

\* a category map that hands out ids no category row has
CategoryId_Dangling(t, category) == NextId(t.skill_categories)

\* category_map.get(category)
CategoryId(t, category) ==
    IF \E c \in t.skill_categories : c.category_name = category
    THEN (CHOOSE c \in t.skill_categories : c.category_name = category).id
    ELSE NoId

\* the skill rows of the categorized loop, in iteration order
RECURSIVE CategorizedRows(_, _)
CategorizedRows(t, byCat) ==
    IF byCat = <<>> THEN <<>>
    ELSE LET skills == SetToSeq(Head(byCat).skills)
         IN [i \in 1..Len(skills) |->
                [skill_name |-> skills[i],
                 category_id |-> CategoryId(t, Head(byCat).category)]]
            \o CategorizedRows(t, Tail(byCat))

\* SELECT DISTINCT unnest(job_skills) ... WHERE job_skills IS NOT NULL
UnnestedSkills(t) ==
    UNION {Range(r.job_skills) :
              r \in {x \in StagingRowSet(t) : x.job_skills # NullList}}

UncategorizedRows_None(t) == <<>>

\* the skill rows of the loop over the flat job_skills lists
UncategorizedRows(t) ==
    LET uncategorized_skills == SetToSeq(UnnestedSkills(t))
    IN [i \in 1..Len(uncategorized_skills) |->
           [skill_name |-> PyStrip(Lower(uncategorized_skills[i])),
            category_id |-> NoId]]

InsertSkills_FlatFirst(t, byCat) ==
    [t EXCEPT !.skills =
        InsertIfAbsent(@, UncategorizedRows(t) \o CategorizedRows(t, byCat),
                       {"skill_name"})]

\* the two insertion loops into skills, categorized rows first
InsertSkills(t, byCat) ==
    [t EXCEPT !.skills =
        InsertIfAbsent(@, CategorizedRows(t, byCat) \o UncategorizedRows(t),
                       {"skill_name"})]

-----------------------------------------------------------------------------
(* Fact populator *)

\* the SELECT of populate_jobs and its count without their WHERE clause
Qualifies_NoFilter(s) == TRUE

\* WHERE NOT (s.job_title IS NULL AND s.job_title_short IS NULL)
Qualifies(s) == ~(IsNull(s.job_title) /\ IsNull(s.job_title_short))

\* SELECT COUNT(*) FROM staging_jobs WHERE NOT (...)
JobsTotal(t) ==
    Cardinality({i \in 1..Len(t.staging_jobs) : Qualifies(t.staging_jobs[i])})

LeftJoin_Inner(ids) == ids

\* the ids a LEFT JOIN supplies: those of the matching rows, or NULL
LeftJoin(ids) == IF ids = {} THEN {NoId} ELSE ids

\* the rows the SELECT of populate_jobs yields for staging row i; stg_id is
\* not a column of jobs: it records the staging row a job row came from
JoinRows(t, i) ==
    LET s == t.staging_jobs[i]
        cs == {c.id : c \in {x \in t.companies :
                  SqlEq(SqlTrim(Coalesce(s.company_name, Unknown)), x.company_name)}}
        ls == {l.id : l \in {x \in t.locations :
                  /\ SqlEq(Coalesce(s.job_country, Unknown), x.country)
                  /\ SqlEq(Coalesce(s.job_location, Unknown), x.full_location)}}
        ps == {p.id : p \in {x \in t.platforms :
                  SqlEq(CleanPlatform(s.job_via), x.platform_name)}}
        sts == {st.id : st \in {x \in t.schedule_types :
                  SqlEq(SqlTrim(s.job_schedule_type), x.schedule_type_name)}}
    IN IF ~Qualifies(s) THEN {}
       ELSE {[job_title |-> Coalesce(s.job_title, s.job_title_short),
              job_title_short |-> s.job_title_short,
              company_id |-> c, location_id |-> l, platform_id |-> p,
              schedule_type_id |-> st,
              job_posted_date |-> s.job_posted_date,
              stg_id |-> i] :
                 c \in LeftJoin(cs), l \in LeftJoin(ls),
                 p \in LeftJoin(ps), st \in LeftJoin(sts)}

\* the results the SELECT ... ORDER BY s.id can return: rows of the same
\* staging row come in any order
RECURSIVE JobsSelects(_, _)
JobsSelects(t, i) ==
    IF i > Len(t.staging_jobs) THEN {<<>>}
    ELSE {a \o b : a \in Orderings(JoinRows(t, i)), b \in JobsSelects(t, i + 1)}

\* LIMIT lim OFFSET off
Window(sel, lim, off) == SubSeq(sel, off + 1, Min(off + lim, Len(sel)))

\* INSERT INTO jobs of the rows of a batch (no conflict clause)
RECURSIVE InsertJobs(_, _)
InsertJobs(T, rows) ==
    IF rows = <<>> THEN T
    ELSE InsertJobs(T \cup {[id |-> NextId(T)] @@ Head(rows)}, Tail(rows))

-----------------------------------------------------------------------------
(* Bridge populator *)

\* number of rows the join yields for job j and skill k: one per staging row
\* matching j on (job_title, job_posted_date) and per element of its
\* job_skills matching k
Mult(t, j, k) ==
    Cardinality(UNION {
        {<<i, e>> : e \in {x \in 1..Len(t.staging_jobs[i].job_skills) :
            Lower(SqlTrim(t.staging_jobs[i].job_skills[x])) = Lower(k.skill_name)}} :
        i \in {y \in 1..Len(t.staging_jobs) :
                  /\ SqlEq(j.job_title, t.staging_jobs[y].job_title)
                  /\ SqlEq(j.job_posted_date, t.staging_jobs[y].job_posted_date)
                  /\ t.staging_jobs[y].job_skills # NullList}})

RECURSIVE Repeat(_, _)
Repeat(x, n) == IF n = 0 THEN <<>> ELSE <<x>> \o Repeat(x, n - 1)

\* the SELECT of populate_job_skills, ORDER BY j.job_id, s_map.skill_id
RECURSIVE BridgeFrom(_, _, _)
BridgeFrom(t, jid, sid) ==
    IF jid > MaxId(t.jobs) THEN <<>>
    ELSE IF sid > MaxId(t.skills) THEN BridgeFrom(t, jid + 1, 1)
    ELSE LET js == {j \in t.jobs : j.id = jid}
             ks == {k \in t.skills : k.id = sid}
             n == IF js = {} \/ ks = {} THEN 0
                  ELSE Mult(t, CHOOSE j \in js : TRUE, CHOOSE k \in ks : TRUE)
         IN Repeat([job_id |-> jid, skill_id |-> sid], n) \o BridgeFrom(t, jid, sid + 1)

BridgeSelect(t) == BridgeFrom(t, 1, 1)

\* the composite uniqueness of the bridge table
JobSkillKeys == {"job_id", "skill_id"}

\* the batch insert without its ON CONFLICT DO NOTHING clause
InsertJobSkills_NoConflict(T, rows) == T \o rows

\* INSERT INTO job_skills ... ON CONFLICT DO NOTHING of the rows of a batch
RECURSIVE InsertJobSkills(_, _)
InsertJobSkills(T, rows) ==
    IF rows = <<>> THEN T
    ELSE InsertJobSkills(
             IF \E x \in Range(T) : \A c \in JobSkillKeys : x[c] = Head(rows)[c] THEN T
             ELSE Append(T, Head(rows)),
             Tail(rows))

-----------------------------------------------------------------------------
(* The run *)

\* a purge that also empties the staging table
PurgeOrder_WithStaging ==
    <<"job_skills", "jobs", "skills", "skill_categories", "companies",
      "locations", "platforms", "schedule_types", "staging_jobs">>

\* a purge that deletes the jobs before the bridge rows that reference them
PurgeOrder_JobsFirst ==
    <<"jobs", "job_skills", "skills", "skill_categories", "companies",
      "locations", "platforms", "schedule_types">>

\* delete_previous_info: the DELETE statements in the order they are issued
PurgeOrder == <<"job_skills", "jobs", "skills", "skill_categories",
                "companies", "locations", "platforms", "schedule_types">>

\* a run that builds the bridge before the facts
RunOrder_BridgeFirst ==
    <<"delete_previous_info", "populate_companies", "populate_locations",
      "populate_platforms", "populate_schedule_types",
      "populate_skill_categories_and_skills", "populate_job_skills",
      "populate_jobs">>

\* run_transformation: the methods in the order they are called
RunOrder == <<"delete_previous_info", "populate_companies", "populate_locations",
              "populate_platforms", "populate_schedule_types",
              "populate_skill_categories_and_skills", "populate_jobs",
              "populate_job_skills">>

\* an exception handler that reports success
OnException_True == "True"

\* JobPipeline.run_transformation: the value of its except branch
OnException == "False"

\* JobPipeline.run_transformation: the value returned after the call
OnReturn == "True"

Methods == Range(RunOrder)

IndexOf(m) == CHOOSE i \in 1..Len(RunOrder) : RunOrder[i] = m

\* where control goes when method m returns
AfterMethod(m) ==
    IF IndexOf(m) = Len(RunOrder) THEN "returning" ELSE RunOrder[IndexOf(m) + 1]

\* the contents of the dimension tables without their surrogate ids
CategoryName(t, id) ==
    IF \E c \in t.skill_categories : c.id = id
    THEN (CHOOSE c \in t.skill_categories : c.id = id).category_name
    ELSE NULL

DimContents(t) ==
    [valid |-> TRUE,
     companies |-> {r.company_name : r \in t.companies},
     locations |-> {<<r.main_city, r.main_state_province, r.country, r.full_location>> :
                        r \in t.locations},
     platforms |-> {r.platform_name : r \in t.platforms},
     schedule_types |-> {r.schedule_type_name : r \in t.schedule_types},
     skill_categories |-> {r.category_name : r \in t.skill_categories},
     skills |-> {<<r.skill_name, CategoryName(t, r.category_id)>> : r \in t.skills}]

NoSnap ==
    [valid |-> FALSE, companies |-> {}, locations |-> {}, platforms |-> {},
     schedule_types |-> {}, skill_categories |-> {}, skills |-> {}]

\* the row of table T a foreign key refers to, with its surrogate id
\* dropped; none for a NULL key
Referenced(T, fk) ==
    {[c \in (DOMAIN r) \ {"id"} |-> r[c]] : r \in {x \in T : x.id = fk}}

\* a jobs row without surrogate ids: its own columns and, for each foreign
\* key, the dimension row referred to
JobContent(t, j) ==
    [job_title |-> j.job_title,
     job_title_short |-> j.job_title_short,
     job_posted_date |-> j.job_posted_date,
     company |-> Referenced(t.companies, j.company_id),
     location |-> Referenced(t.locations, j.location_id),
     platform |-> Referenced(t.platforms, j.platform_id),
     schedule_type |-> Referenced(t.schedule_types, j.schedule_type_id)]

\* a bridge row without surrogate ids: the job and the skill name
LinkContent(t, b) ==
    [job |-> JobContent(t, CHOOSE j \in t.jobs : j.id = b.job_id),
     skill_name |-> (CHOOSE k \in t.skills : k.id = b.skill_id).skill_name]

\* the rows of jobs and of job_skills without surrogate ids, each with the
\* number of times it is held
FactContents(t) ==
    [valid |-> TRUE,
     jobs |-> [c \in {JobContent(t, j) : j \in t.jobs} |->
                  Cardinality({j \in t.jobs : JobContent(t, j) = c})],
     job_skills |-> [c \in {LinkContent(t, t.job_skills[i]) : i \in 1..Len(t.job_skills)} |->
                        Cardinality({i \in 1..Len(t.job_skills) :
                                        LinkContent(t, t.job_skills[i]) = c})]]

NoFacts == [valid |-> FALSE, jobs |-> <<>>, job_skills |-> <<>>]

\* no call of extract_location_components has been made
NotCalled == [called |-> FALSE]

NormalizerIdle ==
    /\ loc_arg = NULL
    /\ country_arg = NULL
    /\ loc_result = NotCalled

\* the file at filepath cannot be read
Missing == <<"<MISSING>">>

\* no call of execute_sql_file has been made
SqlFileIdle ==
    /\ sql_file = Missing
    /\ sql_pc = "idle"
    /\ pending = <<>>
    /\ executed = <<>>
    /\ schema = <<>>
    /\ sql_commits = 0
    /\ sql_result = "none"

\* no call of JobPipeline.run has been made
PipelineIdle ==
    /\ only_transformation = FALSE
    /\ run_pc = "idle"
    /\ phases = <<>>
    /\ df = <<>>
    /\ loaded = 0
    /\ closed = FALSE
    /\ run_result = "none"

Init ==
    /\ db \in {EmptyStore(stg) : stg \in StagingSnapshots}
    /\ NormalizerIdle
    /\ SqlFileIdle
    /\ PipelineIdle
    /\ tx = db
    /\ open = 0
    /\ pc = "idle"
    /\ step = 0
    /\ deleted = <<>>
    /\ commits = <<>>
    /\ offset = 0
    /\ total_rows = 0
    /\ reported = 0
    /\ runs = 0
    /\ result = "none"
    /\ skills_by_category = <<>>
    /\ snap = NoSnap
    /\ fact_snap = NoFacts

\* `with self.engine.connect() as conn:` entered: one more connection held
Acquire(n) == n + 1

Close_Leak(n) == n

\* the `with` block left, by its end or by an exception: the connection is
\* released
Close(n) == n - 1

\* JobPipeline.run_transformation calls DataTransformation.run_transformation
Start ==
    /\ pc \in {"idle", "done", "failed"}
    /\ runs < MaxRuns
    /\ runs' = runs + 1
    /\ pc' = RunOrder[1]
    /\ step' = 0
    /\ result' = "none"
    /\ commits' = <<>>
    /\ deleted' = <<>>
    /\ offset' = 0
    /\ total_rows' = 0
    /\ reported' = 0
    /\ skills_by_category' = <<>>
    /\ snap' = IF result = "True" THEN DimContents(db) ELSE NoSnap
    /\ fact_snap' = IF result = "True" THEN FactContents(db) ELSE NoFacts
    /\ UNCHANGED <<db, tx, open>>
    /\ UNCHANGED other_vars

\* one DELETE FROM statement of delete_previous_info
PurgeDelete ==
    /\ pc = "delete_previous_info"
    /\ Len(deleted) < Len(PurgeOrder)
    /\ LET table == PurgeOrder[Len(deleted) + 1]
       IN /\ tx' = [tx EXCEPT ![table] = EmptyTable(table)]
          /\ deleted' = Append(deleted, table)
    /\ open' = IF deleted = <<>> THEN Acquire(open) ELSE open
    /\ UNCHANGED <<db, pc, step, commits, offset, total_rows, reported, runs,
                   result, skills_by_category, snap, fact_snap>>
    /\ UNCHANGED other_vars

\* conn.commit() of delete_previous_info and its return
PurgeCommit ==
    /\ pc = "delete_previous_info"
    /\ Len(deleted) = Len(PurgeOrder)
    /\ db' = tx
    /\ open' = Close(open)
    /\ commits' = Append(commits, pc)
    /\ pc' = AfterMethod(pc)
    /\ UNCHANGED <<tx, step, deleted, offset, total_rows, reported, runs, result,
                   skills_by_category, snap, fact_snap>>
    /\ UNCHANGED other_vars

\* a populator made of statements followed by one commit
Committed(m, after) ==
    /\ pc = m
    /\ db' = after
    /\ tx' = after
    /\ commits' = Append(commits, m)
    /\ pc' = AfterMethod(m)
    /\ open' = Close(Acquire(open))
    /\ UNCHANGED <<step, deleted, offset, total_rows, reported, runs, result,
                   skills_by_category, snap, fact_snap>>
    /\ UNCHANGED other_vars

PopulateCompanies == Committed("populate_companies", populate_companies(db))

PopulateLocations == Committed("populate_locations", populate_locations(db))

PopulatePlatforms == Committed("populate_platforms", populate_platforms(db))

PopulateScheduleTypes ==
    Committed("populate_schedule_types", populate_schedule_types(db))

\* populate_skill_categories_and_skills up to its first commit
PopulateSkillCategories ==
    /\ pc = "populate_skill_categories_and_skills"
    /\ step = 0
    /\ \E skill_type_rows \in Orderings(SkillTypeValues(db)) :
          /\ ~CollectRaises(skill_type_rows)
          /\ skills_by_category' = CollectSkills(<<>>, skill_type_rows)
          /\ db' = InsertCategories(db, skills_by_category')
    /\ tx' = db'
    /\ commits' = Append(commits, pc)
    /\ step' = 1
    /\ open' = Acquire(open)
    /\ UNCHANGED <<pc, deleted, offset, total_rows, reported, runs, result, snap, fact_snap>>
    /\ UNCHANGED other_vars

\* populate_skill_categories_and_skills from the first commit to the second
PopulateSkills ==
    /\ pc = "populate_skill_categories_and_skills"
    /\ step = 1
    /\ db' = InsertSkills(db, skills_by_category)
    /\ tx' = db'
    /\ commits' = Append(commits, pc)
    /\ pc' = AfterMethod(pc)
    /\ step' = 0
    /\ open' = Close(open)
    /\ skills_by_category' = <<>>
    /\ UNCHANGED <<deleted, offset, total_rows, reported, runs, result, snap, fact_snap>>
    /\ UNCHANGED other_vars

\* the count of populate_jobs or populate_job_skills, on its own connection
Count(m, total) ==
    /\ pc = m
    /\ step = 0
    /\ total_rows' = total
    /\ offset' = 0
    /\ reported' = 0
    /\ step' = 1
    /\ open' = Close(Acquire(open))
    /\ UNCHANGED <<db, tx, pc, deleted, commits, runs, result,
                   skills_by_category, snap, fact_snap>>
    /\ UNCHANGED other_vars

Advance_ByRowcount(off, size, rows_inserted) == off + rows_inserted

\* `offset += BATCH_SIZE` (`offset += BATCH_SIZE*10`) after a batch that
\* inserted rows_inserted rows
Advance(off, size, rows_inserted) == off + size

\* the end of a batch loop: offset has reached total_rows
LoopExit(m) ==
    /\ pc = m
    /\ step = 1
    /\ ~(offset < total_rows)
    /\ pc' = AfterMethod(m)
    /\ step' = 0
    /\ UNCHANGED <<db, tx, open, deleted, commits, offset, total_rows, reported,
                   runs, result, skills_by_category, snap, fact_snap>>
    /\ UNCHANGED other_vars

JobsCount == Count("populate_jobs", JobsTotal(db))

\* one batch of populate_jobs: insert, commit, report, advance
JobsBatch ==
    /\ pc = "populate_jobs"
    /\ step = 1
    /\ offset < total_rows
    /\ \E sel \in JobsSelects(db, 1) :
          LET rows == Window(sel, BATCH_SIZE, offset)
          IN /\ db' = [db EXCEPT !.jobs = InsertJobs(@, rows)]
             /\ reported' = reported + Len(rows)
             /\ offset' = Advance(offset, BATCH_SIZE, Len(rows))
    /\ tx' = db'
    /\ commits' = Append(commits, pc)
    /\ open' = Close(Acquire(open))
    /\ UNCHANGED <<pc, step, deleted, total_rows, runs, result,
                   skills_by_category, snap, fact_snap>>
    /\ UNCHANGED other_vars

JobsDone == LoopExit("populate_jobs")

JobSkillsCount == Count("populate_job_skills", Len(BridgeSelect(db)))

\* one batch of populate_job_skills
JobSkillsBatch ==
    /\ pc = "populate_job_skills"
    /\ step = 1
    /\ offset < total_rows
    /\ LET rows == Window(BridgeSelect(db), BATCH_SIZE * SKILL_BATCH_FACTOR, offset)
           after == InsertJobSkills(db.job_skills, rows)
       IN /\ db' = [db EXCEPT !.job_skills = after]
          /\ reported' = reported + (Len(after) - Len(db.job_skills))
          /\ offset' = Advance(offset, BATCH_SIZE * SKILL_BATCH_FACTOR,
                               Len(after) - Len(db.job_skills))
    /\ tx' = db'
    /\ commits' = Append(commits, pc)
    /\ open' = Close(Acquire(open))
    /\ UNCHANGED <<pc, step, deleted, total_rows, runs, result,
                   skills_by_category, snap, fact_snap>>
    /\ UNCHANGED other_vars

JobSkillsDone == LoopExit("populate_job_skills")

\* run_transformation returns and JobPipeline.run_transformation returns True
Return ==
    /\ pc = "returning"
    /\ pc' = "done"
    /\ result' = OnReturn
    /\ UNCHANGED <<db, tx, open, step, deleted, commits, offset, total_rows,
                   reported, runs, skills_by_category, snap, fact_snap>>
    /\ UNCHANGED other_vars

Release_Commit(committed, view) == view

\* what the store holds once the connection of a `with engine.connect()`
\* block is released by an exception: the committed contents, the
\* statements executed since the last commit being rolled back
Release(committed, view) == committed

\* a statement or commit of the executing method raises: the connection is
\* released with its uncommitted work, the exception leaves
\* run_transformation and JobPipeline.run_transformation returns False
Fail ==
    /\ pc \in Methods
    /\ pc' = "failed"
    /\ result' = OnException
    /\ db' = Release(db, tx)
    /\ tx' = db'
    /\ open' = IF open > 0 THEN Close(open) ELSE open
    /\ UNCHANGED <<step, deleted, commits, offset, total_rows, reported, runs,
                   skills_by_category, snap, fact_snap>>
    /\ UNCHANGED other_vars

Next ==
    \/ Start
    \/ PurgeDelete
    \/ PurgeCommit
    \/ PopulateCompanies
    \/ PopulateLocations
    \/ PopulatePlatforms
    \/ PopulateScheduleTypes
    \/ PopulateSkillCategories
    \/ PopulateSkills
    \/ JobsCount
    \/ JobsBatch
    \/ JobsDone
    \/ JobSkillsCount
    \/ JobSkillsBatch
    \/ JobSkillsDone
    \/ Return
    \/ Fail

Spec == Init /\ [][Next]_vars

-----------------------------------------------------------------------------
(* extract_location_components called on its own *)

\* no run of the transformation is in progress and the store is empty
NoTransformation ==
    /\ db = EmptyStore(<<>>)
    /\ tx = db
    /\ open = 0
    /\ pc = "idle"
    /\ step = 0
    /\ deleted = <<>>
    /\ commits = <<>>
    /\ offset = 0
    /\ total_rows = 0
    /\ reported = 0
    /\ runs = 0
    /\ result = "none"
    /\ skills_by_category = <<>>
    /\ snap = NoSnap
    /\ fact_snap = NoFacts

\* the characters the location strings are made of
LocationChars == {"a", ",", " "}

\* the location strings given: absent, or any text of at most
\* MaxLocationLen characters, the empty one included
LocationStrings ==
    {NULL} \cup UNION {[1..n -> LocationChars] : n \in 0..MaxLocationLen}

\* the countries given: absent, a name, the text "Unknown"
Countries == {NULL, CountryX, Unknown}

NormalizerInit ==
    /\ NoTransformation
    /\ SqlFileIdle
    /\ PipelineIdle
    /\ loc_arg \in LocationStrings
    /\ country_arg \in Countries
    /\ loc_result = NotCalled

\* the call extract_location_components(loc_arg, country_arg) returns
ExtractLocation ==
    /\ loc_result = NotCalled
    /\ loc_result' = extract_location_components(loc_arg, country_arg)
    /\ UNCHANGED <<loc_arg, country_arg, outside_normalizer>>

NormalizerNext == ExtractLocation

NormalizerSpec == NormalizerInit /\ [][NormalizerNext]_vars

-----------------------------------------------------------------------------
(* DatabaseConfig.execute_sql_file *)

\* the characters the files are made of: two statement letters, the
\* separator, a blank
FileChars == {"a", "b", ";", " "}

\* the files given: unreadable, or any text of at most MaxFileLen
\* characters
SqlFiles == {Missing} \cup UNION {[1..n -> FileChars] : n \in 0..MaxFileLen}

SqlFileInit ==
    /\ NoTransformation
    /\ NormalizerIdle
    /\ PipelineIdle
    /\ sql_file \in SqlFiles
    /\ sql_pc = "open"
    /\ pending = <<>>
    /\ executed = <<>>
    /\ schema = <<>>
    /\ sql_commits = 0
    /\ sql_result = "none"

\* open(filepath), f.read(), get_engine(), engine.connect() and
\* sql_commands.split(';')
ReadFile ==
    /\ sql_pc = "open"
    /\ sql_file # Missing
    /\ pending' = SplitOn(sql_file, ";")
    /\ sql_pc' = "loop"
    /\ UNCHANGED <<sql_file, executed, schema, sql_commits, sql_result,
                   outside_sqlfile>>

IsStatement_Any(statement) == TRUE

\* `if statement:` on the stripped piece
IsStatement(statement) == statement # EmptyStr

\* one pass of the loop: the piece is stripped and, unless empty, executed
VisitStatement ==
    /\ sql_pc = "loop"
    /\ pending # <<>>
    /\ LET statement == PyStrip(Head(pending))
       IN executed' = IF IsStatement(statement)
                      THEN Append(executed, statement) ELSE executed
    /\ pending' = Tail(pending)
    /\ UNCHANGED <<sql_file, sql_pc, schema, sql_commits, sql_result,
                   outside_sqlfile>>

\* conn.commit() after the loop, the connection released, return True
CommitFile ==
    /\ sql_pc = "loop"
    /\ pending = <<>>
    /\ schema' = schema \o executed
    /\ sql_commits' = sql_commits + 1
    /\ executed' = <<>>
    /\ sql_result' = "True"
    /\ sql_pc' = "returned"
    /\ UNCHANGED <<sql_file, pending, outside_sqlfile>>

\* reading the file, connecting, a statement or the commit raises: the
\* connection is released with what it executed, the except branch
\* returns False
SqlFileRaises ==
    /\ sql_pc \in {"open", "loop"}
    /\ schema' = Release(schema, schema \o executed)
    /\ executed' = <<>>
    /\ pending' = <<>>
    /\ sql_result' = "False"
    /\ sql_pc' = "returned"
    /\ UNCHANGED <<sql_file, sql_commits, outside_sqlfile>>

SqlFileNext ==
    \/ ReadFile
    \/ VisitStatement
    \/ CommitFile
    \/ SqlFileRaises

SqlFileSpec == SqlFileInit /\ [][SqlFileNext]_vars

-----------------------------------------------------------------------------
(* JobPipeline.run *)

\* stands for the text of sql/schema.sql: two statements
SchemaFile == <<"a", ";", "b">>

\* the staging tables and the CSV files explored: at most MaxRows rows
RowLists == {<<>>} \cup ShortSnapshots

PipelineInit ==
    /\ db \in {EmptyStore(stg) : stg \in RowLists}
    /\ tx = db
    /\ open = 0
    /\ pc = "idle"
    /\ step = 0
    /\ deleted = <<>>
    /\ commits = <<>>
    /\ offset = 0
    /\ total_rows = 0
    /\ reported = 0
    /\ runs = 0
    /\ result = "none"
    /\ skills_by_category = <<>>
    /\ snap = NoSnap
    /\ fact_snap = NoFacts
    /\ NormalizerIdle
    /\ sql_file \in {SchemaFile, Missing}
    /\ sql_pc = "idle"
    /\ pending = <<>>
    /\ executed = <<>>
    /\ schema = <<>>
    /\ sql_commits = 0
    /\ sql_result = "none"
    /\ only_transformation \in BOOLEAN
    /\ run_pc = "run"
    /\ phases = <<>>
    /\ df = <<>>
    /\ loaded = 0
    /\ closed = FALSE
    /\ run_result = "none"

\* `if not self.setup_database(): return False`
AfterSetup(ok) == IF ok THEN "read_csv" ELSE "returned"

AfterValidation_Ignore(ok) == "load_to_staging"

\* `if not self.validate_data(df): return False` of run_ingestion, which
\* run answers with `return False`
AfterValidation(ok) == IF ok THEN "load_to_staging" ELSE "returned"

\* `if not self.run_ingestion(): return False`
AfterIngestion(ok) == IF ok THEN "run_transformation" ELSE "returned"

\* a phase ends with outcome ok and control goes to next; on the way out of
\* run the finally clause closes the database configuration, and a phase
\* that failed makes run return False
EndPhase(ended, next) ==
    /\ phases' = phases \o ended
    /\ run_pc' = next
    /\ closed' = (next = "returned")
    /\ run_result' = IF next = "returned" THEN "False" ELSE run_result

\* run tests self.only_transformation
Run ==
    /\ run_pc = "run"
    /\ run_pc' = IF only_transformation THEN "run_transformation"
                 ELSE "test_connection"
    /\ UNCHANGED <<only_transformation, phases, df, loaded, closed, run_result,
                   transformation_vars, normalizer_vars, sqlfile_vars>>

\* setup_database: test_connection() answers, or it raises
TestConnection ==
    /\ run_pc = "test_connection"
    /\ \E ok \in BOOLEAN :
          IF ok
          THEN /\ run_pc' = "schema_exists"
               /\ UNCHANGED <<phases, closed, run_result>>
          ELSE EndPhase(<<[name |-> "setup_database", ok |-> FALSE]>>,
                        AfterSetup(FALSE))
    /\ UNCHANGED <<only_transformation, df, loaded,
                   transformation_vars, normalizer_vars, sqlfile_vars>>

\* setup_database: schema_path.exists(), then the call of execute_sql_file
SchemaExists ==
    /\ run_pc = "schema_exists"
    /\ IF sql_file # Missing
       THEN /\ run_pc' = "execute_sql_file"
            /\ sql_pc' = "open"
            /\ UNCHANGED <<phases, closed, run_result>>
       ELSE /\ EndPhase(<<[name |-> "setup_database", ok |-> FALSE]>>,
                        AfterSetup(FALSE))
            /\ UNCHANGED sql_pc
    /\ UNCHANGED <<only_transformation, df, loaded, sql_file, pending,
                   executed, schema, sql_commits, sql_result,
                   transformation_vars, normalizer_vars>>

\* execute_sql_file runs inside setup_database
ExecuteSchema ==
    /\ run_pc = "execute_sql_file"
    /\ SqlFileNext

\* setup_database returns what execute_sql_file returned
SetupReturns ==
    /\ run_pc = "execute_sql_file"
    /\ sql_pc = "returned"
    /\ EndPhase(<<[name |-> "setup_database", ok |-> sql_result = "True"]>>,
                AfterSetup(sql_result = "True"))
    /\ UNCHANGED <<only_transformation, df, loaded,
                   transformation_vars, normalizer_vars, sqlfile_vars>>

\* run_ingestion: ingestion.read_csv(self.csv_filepath)
ReadCsv ==
    /\ run_pc = "read_csv"
    /\ df' \in {rows \in RowLists : Len(db.staging_jobs) + Len(rows) <= MaxRows}
    /\ run_pc' = "validate_data"
    /\ UNCHANGED <<only_transformation, phases, loaded, closed, run_result,
                   transformation_vars, normalizer_vars, sqlfile_vars>>

\* run_ingestion: validate_data(df) answers
ValidateData ==
    /\ run_pc = "validate_data"
    /\ \E ok \in BOOLEAN :
          EndPhase(IF ok THEN <<[name |-> "validate_data", ok |-> TRUE]>>
                   ELSE <<[name |-> "validate_data", ok |-> FALSE],
                          [name |-> "run_ingestion", ok |-> FALSE]>>,
                   AfterValidation(ok))
    /\ UNCHANGED <<only_transformation, df, loaded,
                   transformation_vars, normalizer_vars, sqlfile_vars>>

\* load_to_staging: one chunk.to_sql(..., if_exists='append')
LoadChunk ==
    /\ run_pc = "load_to_staging"
    /\ loaded < Len(df)
    /\ LET chunk == SubSeq(df, loaded + 1, Min(loaded + batch_size, Len(df)))
       IN /\ db' = [db EXCEPT !.staging_jobs = @ \o chunk]
          /\ tx' = db'
          /\ loaded' = loaded + Len(chunk)
    /\ UNCHANGED <<open, pc, step, deleted, commits, offset, total_rows,
                   reported, runs, result, skills_by_category, snap, fact_snap>>
    /\ UNCHANGED <<only_transformation, run_pc, phases, df, closed, run_result,
                   normalizer_vars, sqlfile_vars>>

\* load_to_staging and run_ingestion return
IngestionReturns ==
    /\ run_pc = "load_to_staging"
    /\ loaded >= Len(df)
    /\ EndPhase(<<[name |-> "run_ingestion", ok |-> TRUE]>>, AfterIngestion(TRUE))
    /\ df' = <<>>
    /\ UNCHANGED <<only_transformation, loaded,
                   transformation_vars, normalizer_vars, sqlfile_vars>>

\* read_csv, the validator or a chunk raises: the except branch of
\* run_ingestion returns False
IngestionRaises ==
    /\ run_pc \in {"read_csv", "validate_data", "load_to_staging"}
    /\ EndPhase(<<[name |-> "run_ingestion", ok |-> FALSE]>>, AfterIngestion(FALSE))
    /\ df' = <<>>
    /\ UNCHANGED <<only_transformation, loaded,
                   transformation_vars, normalizer_vars, sqlfile_vars>>

\* self.run_transformation() runs
Transformation ==
    /\ run_pc = "run_transformation"
    /\ pc \notin {"done", "failed"}
    /\ Next

\* self.run_transformation() has returned: run returns, its finally clause
\* closing the database configuration
RunReturns ==
    /\ run_pc = "run_transformation"
    /\ pc \in {"done", "failed"}
    /\ phases' = Append(phases, [name |-> "run_transformation",
                                  ok |-> result = "True"])
    /\ run_result' = IF result = "True" THEN "True" ELSE "False"
    /\ run_pc' = "returned"
    /\ closed' = TRUE
    /\ UNCHANGED <<only_transformation, df, loaded,
                   transformation_vars, normalizer_vars, sqlfile_vars>>

PipelineNext ==
    \/ Run
    \/ TestConnection
    \/ SchemaExists
    \/ ExecuteSchema
    \/ SetupReturns
    \/ ReadCsv
    \/ ValidateData
    \/ LoadChunk
    \/ IngestionReturns
    \/ IngestionRaises
    \/ Transformation
    \/ RunReturns

PipelineSpec == PipelineInit /\ [][PipelineNext]_vars

-----------------------------------------------------------------------------
(* Properties *)

RunComplete == pc = "done"

JobsOf(t, i) == {j \in t.jobs : j.stg_id = i}

\* C1: after a complete run_transformation the jobs table holds exactly one
\* row for every staging row whose title or title-short is non-NULL (and
\* none for the other staging rows), whatever the dimensions contain and
\* however the rows fall across the batches of populate_jobs.
C1_OneJobPerStagingRow ==
    RunComplete =>
        \A i \in 1..Len(db.staging_jobs) :
            Cardinality(JobsOf(db, i)) =
                IF Qualifies(db.staging_jobs[i]) THEN 1 ELSE 0

BatchedMethods == {"populate_jobs", "populate_job_skills"}

LoopEnded == pc \in BatchedMethods /\ step = 1 /\ ~(offset < total_rows)

\* C2: batch completeness: when the batch loop of populate_jobs or of
\* populate_job_skills ends, the sum of the row counts reported to the
\* progress bar equals the total computed at the start of the stage.
C2_BatchCompleteness == LoopEnded => reported = total_rows

\* the names of the skills the bridge table links to job j
LinkedSkills(t, j) ==
    {k.skill_name : k \in {x \in t.skills :
        \E i \in 1..Len(t.job_skills) :
            t.job_skills[i].job_id = j.id /\ t.job_skills[i].skill_id = x.id}}

\* the lowercase-trimmed skills of the skill list of staging row i
OwnSkills(t, i) ==
    IF t.staging_jobs[i].job_skills = NullList THEN {}
    ELSE {PyStrip(Lower(x)) : x \in Range(t.staging_jobs[i].job_skills)}

\* C3: after populate_job_skills every job is linked to exactly the
\* (lowercase-trimmed) skills of the skill list of the one staging row it was
\* derived from, also when staging rows share title and posted date or when
\* the title or posted date of the originating row is NULL.
C3_JobSkillsOfOwnRow ==
    RunComplete => \A j \in db.jobs : LinkedSkills(db, j) = OwnSkills(db, j.stg_id)

NoDuplicateKeys(T, keys) ==
    \A x \in T : \A y \in T : (\A k \in keys : x[k] = y[k]) => x = y

NoDuplicateNaturalKeys(t) ==
    /\ NoDuplicateKeys(t.companies, {"company_name"})
    /\ NoDuplicateKeys(t.locations, LocationKeys)
    /\ NoDuplicateKeys(t.platforms, {"platform_name"})
    /\ NoDuplicateKeys(t.schedule_types, {"schedule_type_name"})
    /\ NoDuplicateKeys(t.skill_categories, {"category_name"})
    /\ NoDuplicateKeys(t.skills, {"skill_name"})

\* C4: idempotence: a second complete run on the same staging table leaves
\* every dimension table with the contents (ignoring surrogate ids, skills
\* taken with their category) the first run left, and no dimension table
\* holds two rows with the same natural key.
C4_DimensionsIdempotent ==
    (RunComplete /\ snap.valid) =>
        /\ DimContents(db) = snap
        /\ NoDuplicateNaturalKeys(db)

BothAbsent(r) == IsNull(r.job_title) /\ IsNull(r.job_title_short)

\* C5: exclusion law: in every state, committed or seen by the open
\* connection, no row of jobs has title and title-short both NULL, and no job
\* row comes from a staging row with both absent.
C5_ExclusionLaw ==
    \A t \in {db, tx} : \A j \in t.jobs :
        /\ ~BothAbsent(j)
        /\ ~BothAbsent(t.staging_jobs[j.stg_id])

\* a complete run over a staging table with an excluded row and a kept one
C5_Witness ==
    /\ RunComplete
    /\ db.jobs # {}
    /\ \E i \in 1..Len(db.staging_jobs) : BothAbsent(db.staging_jobs[i])

\* C6: bridge uniqueness: in every state the bridge table holds at most one
\* row for each (job, skill) pair, also when a batch or several batches
\* produce the same pair more than once.
C6_BridgeUnique ==
    \A t \in {db, tx} : \A a, b \in 1..Len(t.job_skills) :
        (/\ t.job_skills[a].job_id = t.job_skills[b].job_id
         /\ t.job_skills[a].skill_id = t.job_skills[b].skill_id) => a = b

\* the loop of populate_job_skills has ended after several batches whose
\* select produced some pair more than once
C6_Witness ==
    /\ pc = "populate_job_skills"
    /\ LoopEnded
    /\ total_rows > BATCH_SIZE * SKILL_BATCH_FACTOR
    /\ db.job_skills # <<>>
    /\ Len(db.job_skills) < total_rows

\* C7: no operation of the transformation changes the staging table.
C7_StagingUntouched ==
    [][/\ db'.staging_jobs = db.staging_jobs
       /\ tx'.staging_jobs = tx.staging_jobs]_vars

\* a run has purged the output of a previous complete run and rebuilt it
C7_Witness ==
    /\ RunComplete
    /\ snap.valid
    /\ db.jobs # {}
    /\ db.staging_jobs # <<>>

\* the tables holding a foreign key to table t
Referrers(t) ==
    CASE t \in {"jobs", "skills"} -> {"job_skills"}
      [] t \in {"companies", "locations", "platforms", "schedule_types"} -> {"jobs"}
      [] t = "skill_categories" -> {"skills"}
      [] OTHER -> {}

PurgedTables == Tables \ {"staging_jobs"}

Purging == pc = "delete_previous_info"

\* C8: the purge deletes a table only after every table holding a foreign
\* key to it has been deleted, and the eight deletions reach the store
\* together, by one commit issued after the last of them.
C8_PurgeChildrenFirst ==
    [][/\ (deleted' # deleted /\ deleted' # <<>>) =>
              /\ deleted' = Append(deleted, deleted'[Len(deleted')])
              /\ Referrers(deleted'[Len(deleted')]) \subseteq Range(deleted)
       /\ (Purging /\ pc' = pc) => (db' = db /\ commits' = <<>>)
       /\ (Purging /\ db' # db) => pc' # pc
       /\ (Purging /\ pc' \notin {pc, "failed"}) =>
              /\ Range(deleted) = PurgedTables
              /\ Len(deleted) = Cardinality(PurgedTables)
              /\ \A t \in PurgedTables : db'[t] = EmptyTable(t)
              /\ commits' = <<"delete_previous_info">>]_vars

\* the purge of a second run has just committed the deletion of the rows the
\* first run had built
C8_Witness ==
    /\ pc = "populate_companies"
    /\ commits = <<"delete_previous_info">>
    /\ snap.valid
    /\ snap.companies # {}
    /\ db.companies = {}
    /\ db.job_skills = <<>>

\* the stages of a run in the order the claim gives them
ClaimedOrder ==
    <<"delete_previous_info", "populate_companies", "populate_locations",
      "populate_platforms", "populate_schedule_types",
      "populate_skill_categories_and_skills", "populate_jobs",
      "populate_job_skills", "returning", "done">>

\* C9: a run goes through purge, the dimension populators (companies,
\* locations, platforms, schedule types, skill categories and skills), the
\* fact populator, the bridge populator and completion in this order; a
\* stage starts only when the previous one has committed all its work, and
\* none is skipped or repeated.
C9_StagesInOrder ==
    [][pc' # pc =>
          \/ pc' = "failed" /\ pc \in Methods
          \/ pc \in {"idle", "done", "failed"} /\ pc' = ClaimedOrder[1]
          \/ \E i \in 1..(Len(ClaimedOrder) - 1) :
                /\ pc = ClaimedOrder[i]
                /\ pc' = ClaimedOrder[i + 1]
                /\ tx' = db'
                /\ open' = 0
                /\ pc \in BatchedMethods => ~(offset < total_rows)
                /\ Purging => Range(deleted) = PurgedTables]_vars

\* a run has gone through every stage, batches included
C9_Witness ==
    /\ RunComplete
    /\ "populate_jobs" \in Range(commits)
    /\ "populate_job_skills" \in Range(commits)

\* the methods that commit whatever the staging table holds
UnconditionalCommits ==
    {"delete_previous_info", "populate_companies", "populate_locations",
     "populate_platforms", "populate_schedule_types",
     "populate_skill_categories_and_skills"}

\* every stage of the run has committed its work
AllStagesCommitted ==
    /\ tx = db
    /\ open = 0
    /\ UnconditionalCommits \subseteq Range(commits)
    /\ JobsTotal(db) > 0 => "populate_jobs" \in Range(commits)
    /\ Len(BridgeSelect(db)) > 0 => "populate_job_skills" \in Range(commits)

\* C10: when a stage raises, no later stage runs and the stage is not
\* retried (the store and the commits stay as they are until the caller
\* starts a new run from the purge), JobPipeline.run_transformation returns
\* False, and True is returned only when all stages have committed.
C10_FailureAborts ==
    /\ [](pc = "failed" => result = "False")
    /\ [](result = "True" => (pc = "done" /\ AllStagesCommitted))
    /\ [][pc = "failed" =>
             \/ pc' = "failed" /\ db' = db /\ commits' = commits
             \/ /\ pc' = "delete_previous_info"
                /\ runs' = runs + 1
                /\ db' = db
                /\ commits' = <<>>]_vars
    /\ [][(pc \in Methods /\ pc' = "failed") =>
             (result' = "False" /\ db' = db /\ commits' = commits)]_vars

\* a run has failed after some of its stages had committed
C10_Witness ==
    /\ pc = "failed"
    /\ result = "False"
    /\ "populate_companies" \in Range(commits)
    /\ db.companies # {}

\* the tables a stage fills
StageTables(m) ==
    CASE m = "populate_companies" -> {"companies"}
      [] m = "populate_locations" -> {"locations"}
      [] m = "populate_platforms" -> {"platforms"}
      [] m = "populate_schedule_types" -> {"schedule_types"}
      [] m = "populate_skill_categories_and_skills" -> {"skill_categories", "skills"}
      [] m = "populate_jobs" -> {"jobs"}
      [] m = "populate_job_skills" -> {"job_skills"}
      [] OTHER -> {}

\* C11 as stated: when a stage fails, the store holds no committed row of
\* the failing stage (the tables that stage fills are as the purge left
\* them).
C11_NoRowsOfFailingStage ==
    [][(pc \in Methods /\ pc' = "failed") =>
          \A tb \in StageTables(pc) : db'[tb] = EmptyTable(tb)]_vars

\* C11, amended: when a stage fails, the store keeps exactly what had been
\* committed before the failure (the failure changes no committed row and
\* the uncommitted statements are discarded), and after the purge a table
\* holds rows only if the stage that fills it has committed; the failing
\* stage's own earlier commits (batches, the categories) stay.
C11_OnlyCommittedWork ==
    /\ [][(pc \in Methods /\ pc' = "failed") => (db' = db /\ tx' = db)]_vars
    /\ [](pc = "failed" =>
             /\ tx = db
             /\ open = 0
             /\ commits # <<>> =>
                   \A m \in Methods : \A tb \in StageTables(m) :
                       db[tb] # EmptyTable(tb) => m \in Range(commits))

\* populate_job_skills has failed after a committed batch, with batches
\* still to read
C11_Witness ==
    /\ pc = "failed"
    /\ "populate_job_skills" \in Range(commits)
    /\ offset < total_rows
    /\ db.job_skills # <<>>
    /\ Len(db.job_skills) < Len(BridgeSelect(db))

\* the stage has committed in the current run
Populated(m) == m \in Range(commits)

\* the company names the claim expects: the distinct trimmed non-blank
\* names, and "Unknown" when some name is absent or blank
ExpectedCompanies(t) ==
    LET names == {r.company_name : r \in StagingRowSet(t)}
        given == {SqlTrim(n) : n \in {x \in names : ~IsNull(x)}} \ {EmptyStr}
        absent == \E n \in names : IsNull(n) \/ SqlTrim(n) = EmptyStr
    IN  given \cup (IF absent THEN {Unknown} ELSE {})

\* C12 as stated: after populate_companies the companies table holds
\* exactly the distinct trimmed non-blank company names plus "Unknown"
\* when some staging row has an absent or blank name, and every job of a
\* staging row with an absent company name references the "Unknown" row.
C12_CompaniesWithUnknown ==
    /\ Populated("populate_companies") =>
          {c.company_name : c \in db.companies} = ExpectedCompanies(db)
    /\ RunComplete =>
          \A j \in db.jobs :
              IsNull(db.staging_jobs[j.stg_id].company_name) =>
                  \E c \in db.companies :
                      c.id = j.company_id /\ c.company_name = Unknown

\* the text is empty or made of whitespace only
Blank(x) == PyStrip(x) = EmptyStr

\* C13 as stated: after populate_platforms and populate_schedule_types no
\* platform row and no schedule-type row has an empty or whitespace-only
\* name (values that are blank only after cleaning included), and an
\* "Unknown" schedule type exists only if staging holds that text.
C13_NoBlankNames ==
    /\ Populated("populate_platforms") =>
          \A p \in db.platforms : ~Blank(p.platform_name)
    /\ Populated("populate_schedule_types") =>
          /\ \A st \in db.schedule_types : ~Blank(st.schedule_type_name)
          /\ (\E st \in db.schedule_types : st.schedule_type_name = Unknown) =>
                \E r \in StagingRowSet(db) :
                    /\ ~IsNull(r.job_schedule_type)
                    /\ SqlTrim(r.job_schedule_type) = Unknown

\* the cleaned platform name as the claim words it: a leading "via " or
\* "melalui " in any letter case removed, the rest trimmed
ClaimedPlatformName(v) ==
    LET via == <<"v", "i", "a", " ">>
        melalui == <<"m", "e", "l", "a", "l", "u", "i", " ">>
        n == IF Len(v) >= 4 /\ Lower(SubSeq(v, 1, 4)) = via THEN 4
             ELSE IF Len(v) >= 8 /\ Lower(SubSeq(v, 1, 8)) = melalui THEN 8
                  ELSE 0
    IN  SqlTrim(SubSeq(v, n + 1, Len(v)))

\* the staging row carries a platform value that is not blank
HasPlatform(r) == ~IsNull(r.job_via) /\ SqlTrim(r.job_via) # EmptyStr

\* C14: the platforms table holds exactly the distinct cleaned names of
\* the non-blank staging platform values (prefix "via"/"melalui" removed
\* whatever its letter case, rest trimmed), one row per cleaned name, and
\* the platform FK of each job references the row of its own cleaned value.
C14_PlatformsCleaned ==
    /\ Populated("populate_platforms") =>
          /\ {p.platform_name : p \in db.platforms} =
                {ClaimedPlatformName(r.job_via) :
                    r \in {x \in StagingRowSet(db) : HasPlatform(x)}}
          /\ \A p, q \in db.platforms :
                p.platform_name = q.platform_name => p = q
    /\ RunComplete =>
          \A j \in db.jobs :
              HasPlatform(db.staging_jobs[j.stg_id]) =>
                  \E p \in db.platforms :
                      /\ p.id = j.platform_id
                      /\ p.platform_name =
                            ClaimedPlatformName(db.staging_jobs[j.stg_id].job_via)

\* two jobs whose platform values differ by the letter case of the prefix
\* reference the same platform row
C14_Witness ==
    /\ RunComplete
    /\ Cardinality(db.platforms) = 1
    /\ \E j1, j2 \in db.jobs :
          /\ db.staging_jobs[j1.stg_id].job_via = <<"v", "i", "a", " ", "L">>
          /\ db.staging_jobs[j2.stg_id].job_via = <<"V", "I", "A", " ", "L">>
          /\ j1.platform_id = j2.platform_id
          /\ j1.platform_id # NoId

\* both commits of populate_skill_categories_and_skills have been made in
\* the current run
SkillsInserted ==
    Cardinality({i \in 1..Len(commits) :
                    commits[i] = "populate_skill_categories_and_skills"}) = 2

\* a skill element that names a skill: present and not empty
NamesSkill(x) == ~IsNull(x) /\ x # EmptyStr

\* the skill elements of the typed-skills mappings of staging, with the
\* categories they stand under
TypedElements(t) ==
    UNION {UNION {{<<r.job_type_skills.items[k].category,
                     r.job_type_skills.items[k].skills[e]>> :
                        e \in {n \in 1..Len(r.job_type_skills.items[k].skills) :
                                  NamesSkill(r.job_type_skills.items[k].skills[n])}} :
                     k \in 1..Len(r.job_type_skills.items)} :
              r \in {x \in StagingRowSet(t) : x.job_type_skills.shape = "dict"}}

\* the skill elements of the flat lists of staging
FlatElements(t) ==
    UNION {{r.job_skills[e] : e \in {n \in 1..Len(r.job_skills) :
                                          NamesSkill(r.job_skills[n])}} :
              r \in StagingRowSet(t)}

\* a skill name as stored: lowercase, surrounding whitespace removed
Normalized(x) == PyStrip(Lower(x))

TypedNames(t) == {Normalized(p[2]) : p \in TypedElements(t)}

FlatNames(t) == {Normalized(x) : x \in FlatElements(t)}

\* C15: after populate_skill_categories_and_skills every skill name of
\* staging, typed or flat, lowercased and trimmed, has exactly one row in
\* skills, and no two rows of skills share a name.
C15_EverySkillOnce ==
    SkillsInserted =>
        /\ \A n \in TypedNames(db) \cup FlatNames(db) :
              Cardinality({sk \in db.skills : sk.skill_name = n}) = 1
        /\ \A s1, s2 \in db.skills : s1.skill_name = s2.skill_name => s1 = s2

\* one name given in three spellings, typed and flat, and a name given in a
\* flat list only, are each stored once
C15_Witness ==
    /\ SkillsInserted
    /\ <<" ", "P", "Y">> \in FlatElements(db)
    /\ <<"P", "y">> \in {p[2] : p \in TypedElements(db)}
    /\ Sq \in FlatNames(db) \ TypedNames(db)
    /\ {sk.skill_name : sk \in db.skills} = {Py, Sq}
    /\ Cardinality(db.skills) = 2

\* the categories under which the name stands in some typed-skills mapping
CategoriesOf(t, n) == {p[1] : p \in {q \in TypedElements(t) : Normalized(q[2]) = n}}

\* C16: a skill name that stands under some category in a typed-skills
\* mapping is stored with the id of one of those categories, also when it
\* occurs in flat lists; a name that occurs in flat lists only is stored
\* with a NULL category.
C16_CategorizedWins ==
    SkillsInserted =>
        /\ \A n \in TypedNames(db) :
              \E sk \in db.skills :
                  /\ sk.skill_name = n
                  /\ sk.category_id # NoId
                  /\ CategoryName(db, sk.category_id) \in CategoriesOf(db, n)
        /\ \A n \in FlatNames(db) \ TypedNames(db) :
              \E sk \in db.skills : sk.skill_name = n /\ sk.category_id = NoId

\* a name both typed and flat is stored with a category, a name that is
\* flat only with none
C16_Witness ==
    /\ SkillsInserted
    /\ Py \in TypedNames(db) \cap FlatNames(db)
    /\ Sq \in FlatNames(db) \ TypedNames(db)
    /\ \E sk \in db.skills : sk.skill_name = Py /\ sk.category_id # NoId
    /\ \E sk \in db.skills : sk.skill_name = Sq /\ sk.category_id = NoId

\* the characters in code point order, as far as the names use them
CodePoints ==
    <<"0", "1", "2", "3", "4", "5", "6", "7", "8", "9">> \o UpperChars \o LowerChars

CodePoint(c) ==
    IF \E i \in 1..Len(CodePoints) : CodePoints[i] = c
    THEN CHOOSE i \in 1..Len(CodePoints) : CodePoints[i] = c
    ELSE 0

\* a sorts before b as text
RECURSIVE StrLess(_, _)
StrLess(a, b) ==
    IF b = <<>> THEN FALSE
    ELSE IF a = <<>> THEN TRUE
    ELSE IF Head(a) = Head(b) THEN StrLess(Tail(a), Tail(b))
    ELSE CodePoint(Head(a)) < CodePoint(Head(b))

\* the first of a set of category names in text order
FirstCategory(cats) == CHOOSE c \in cats : \A d \in cats \ {c} : StrLess(c, d)

\* C17 as stated: a skill that stands under several categories is stored
\* with the first of them in a fixed text order of the category names, so
\* that two runs over the same staging snapshot store the same category
\* whatever order the rows and the mappings are iterated in.
C17_CategoryByNameOrder ==
    /\ SkillsInserted =>
          \A sk \in db.skills :
              CategoriesOf(db, sk.skill_name) # {} =>
                  CategoryName(db, sk.category_id) =
                      FirstCategory(CategoriesOf(db, sk.skill_name))
    /\ (RunComplete /\ snap.valid) => DimContents(db).skills = snap.skills

\* the typed-skills values of staging that are malformed in one of the
\* ways the claim names
NotAMapping(v) == v.shape = "other"

HasNonListValue(v) ==
    v.shape = "dict" /\ \E k \in 1..Len(v.items) : v.items[k].skills = NullList

HasAbsentElement(v) ==
    /\ v.shape = "dict"
    /\ \E k \in 1..Len(v.items) :
          /\ v.items[k].skills # NullList
          /\ \E e \in 1..Len(v.items[k].skills) : ~NamesSkill(v.items[k].skills[e])

\* the keys of the typed-skills mappings of staging
MappingKeys(t) ==
    UNION {{r.job_type_skills.items[k].category :
               k \in 1..Len(r.job_type_skills.items)} :
              r \in {x \in StagingRowSet(t) : x.job_type_skills.shape = "dict"}}

\* the keys whose value is a list in some mapping
ListKeys(t) ==
    UNION {{r.job_type_skills.items[k].category :
               k \in {n \in 1..Len(r.job_type_skills.items) :
                         r.job_type_skills.items[n].skills # NullList}} :
              r \in {x \in StagingRowSet(t) : x.job_type_skills.shape = "dict"}}

\* C18 as stated: a malformed typed-skills value (missing, not a mapping,
\* a category whose value is not a list, an empty or absent element) never
\* makes the populator raise and contributes nothing for the malformed
\* part: the categories stored are those whose value is a list, the skills
\* stored are those of the well-formed parts, all of which are inserted.
C18_MalformedContributesNothing ==
    /\ (pc = "populate_skill_categories_and_skills" /\ step = 0) =>
          \A rows \in Orderings(SkillTypeValues(db)) : ~CollectRaises(rows)
    /\ SkillsInserted =>
          /\ {sk.skill_name : sk \in db.skills} = TypedNames(db) \cup FlatNames(db)
          /\ {c.category_name : c \in db.skill_categories} = ListKeys(db)

\* C18, amended: a malformed typed-skills value never makes
\* populate_skill_categories_and_skills raise and adds no skill for the
\* malformed part, while every skill of the well-formed parts is inserted
\* with a category; the categories stored are all keys of all mappings,
\* the key of a value that is not a list included.
C18_MalformedSkipped ==
    /\ (pc = "populate_skill_categories_and_skills" /\ step = 0) =>
          \A rows \in Orderings(SkillTypeValues(db)) : ~CollectRaises(rows)
    /\ SkillsInserted =>
          /\ {sk.skill_name : sk \in db.skills} = TypedNames(db) \cup FlatNames(db)
          /\ {c.category_name : c \in db.skill_categories} = MappingKeys(db)
          /\ \A p \in TypedElements(db) :
                \E sk \in db.skills :
                    sk.skill_name = Normalized(p[2]) /\ sk.category_id # NoId

\* the stage has completed over a snapshot holding a value that is not a
\* mapping, a category without a list, an absent element and a well-formed
\* list
C18_Witness ==
    /\ SkillsInserted
    /\ \E r \in StagingRowSet(db) : NotAMapping(r.job_type_skills)
    /\ \E r \in StagingRowSet(db) :
          HasNonListValue(r.job_type_skills) /\ HasAbsentElement(r.job_type_skills)
    /\ \E sk \in db.skills : sk.skill_name = Py /\ sk.category_id # NoId
    /\ MappingKeys(db) # ListKeys(db)

\* an absent value read as "Unknown"
OrUnknown(x) == IF IsNull(x) THEN Unknown ELSE x

\* the dimension rows that carry the natural key of staging row s
CompanyMatches(t, s) ==
    {c \in t.companies : c.company_name = SqlTrim(OrUnknown(s.company_name))}

LocationMatches(t, s) ==
    {l \in t.locations : /\ l.country = OrUnknown(s.job_country)
                         /\ l.full_location = OrUnknown(s.job_location)}

PlatformMatches(t, s) ==
    IF IsNull(s.job_via) THEN {}
    ELSE {p \in t.platforms : p.platform_name = ClaimedPlatformName(s.job_via)}

ScheduleTypeMatches(t, s) ==
    IF IsNull(s.job_schedule_type) THEN {}
    ELSE {st \in t.schedule_types :
             st.schedule_type_name = SqlTrim(s.job_schedule_type)}

\* the foreign key is NULL when nothing matches, else the id of a match
KeyResolved(fk, matches) ==
    IF matches = {} THEN fk = NoId ELSE fk \in {m.id : m \in matches}

\* no staging row matches two rows of one dimension
MatchesAtMostOnce(t) ==
    \A r \in StagingRowSet(t) :
        /\ Cardinality(CompanyMatches(t, r)) <= 1
        /\ Cardinality(LocationMatches(t, r)) <= 1
        /\ Cardinality(PlatformMatches(t, r)) <= 1
        /\ Cardinality(ScheduleTypeMatches(t, r)) <= 1

\* C19: for every job row and each of the four dimensions the foreign key
\* is NULL exactly when no dimension row carries the natural key of the
\* job's staging row, and otherwise references a row that carries it; a
\* staging row without a match still gets its job row.
C19_ForeignKeys ==
    /\ \A j \in db.jobs :
          LET s == db.staging_jobs[j.stg_id]
          IN  /\ KeyResolved(j.company_id, CompanyMatches(db, s))
              /\ KeyResolved(j.location_id, LocationMatches(db, s))
              /\ KeyResolved(j.platform_id, PlatformMatches(db, s))
              /\ KeyResolved(j.schedule_type_id, ScheduleTypeMatches(db, s))
    /\ (RunComplete /\ MatchesAtMostOnce(db)) =>
          \A i \in 1..Len(db.staging_jobs) :
              Qualifies(db.staging_jobs[i]) => JobsOf(db, i) # {}

\* a job row inserted with two foreign keys resolved and two NULL
C19_Witness ==
    /\ RunComplete
    /\ MatchesAtMostOnce(db)
    /\ \E j \in db.jobs :
          /\ j.company_id = NoId
          /\ j.schedule_type_id = NoId
          /\ j.location_id # NoId
          /\ j.platform_id # NoId

\* the 4-tuple of a location row
LocationTuple(l) == <<l.main_city, l.main_state_province, l.country, l.full_location>>

\* the 4-tuple the claim gives the pair (raw location, country): the
\* normalizer's city and state/province, the staging country and raw text
\* with an absent value read as "Unknown"
ExpectedLocationTuple(location, country) ==
    <<extract_location_components(location, country).city,
      extract_location_components(location, country).state_province,
      OrUnknown(country), OrUnknown(location)>>

\* C20 as stated: after populate_locations each distinct (raw location,
\* country) pair of staging is represented by exactly one location row
\* carrying the pair's 4-tuple, and no two location rows have the same
\* 4-tuple, tuples with a NULL city or state/province included.
C20_LocationsUnique ==
    Populated("populate_locations") =>
        /\ \A r \in StagingRowSet(db) :
              Cardinality({l \in db.locations :
                              LocationTuple(l) =
                                  ExpectedLocationTuple(r.job_location, r.job_country)}) = 1
        /\ \A l1, l2 \in db.locations :
              LocationTuple(l1) = LocationTuple(l2) => l1 = l2

\* the positions of the commas of a text
CommaPositions(x) == {i \in 1..Len(x) : x[i] = ","}

\* the number of comma-separated segments of a text
NumSegments(x) == Cardinality(CommaPositions(x)) + 1

\* the position of the n-th comma of a text: 0 for n = 0, one past the end
\* when the text has fewer commas
CommaAt(x, n) ==
    IF n = 0 THEN 0
    ELSE IF n > Cardinality(CommaPositions(x)) THEN Len(x) + 1
    ELSE CHOOSE i \in CommaPositions(x) :
             Cardinality({j \in CommaPositions(x) : j < i}) = n - 1

\* the n-th comma-separated segment of a text, trimmed
TrimmedSegment(x, n) == PyStrip(SubSeq(x, CommaAt(x, n - 1) + 1, CommaAt(x, n) - 1))

\* an empty text read as NULL
NullIfEmpty(x) == IF x = EmptyStr THEN NULL ELSE x

\* the call has returned
Called == loc_result # NotCalled

\* what C21 says of every call, the value of a segment left open: all three
\* keys, the country unchanged, NULL city and state/province for an empty
\* or absent string
ReturnsAllKeys ==
    /\ DOMAIN loc_result = {"city", "state_province", "country"}
    /\ loc_result.country = country_arg
    /\ (IsNull(loc_arg) \/ loc_arg = EmptyStr) =>
          (IsNull(loc_result.city) /\ IsNull(loc_result.state_province))

\* C21 as stated: extract_location_components returns exactly the keys
\* city, state_province and country, with the country argument unchanged;
\* an empty or absent string gives NULL city and NULL state/province, one
\* segment gives that trimmed segment as city with NULL state/province,
\* two or more give the first trimmed segment as city and the second as
\* state/province.
C21_SegmentsAsGiven ==
    Called =>
        /\ ReturnsAllKeys
        /\ (~IsNull(loc_arg) /\ loc_arg # EmptyStr) =>
              /\ loc_result.city = TrimmedSegment(loc_arg, 1)
              /\ loc_result.state_province =
                    IF NumSegments(loc_arg) = 1 THEN NULL
                    ELSE TrimmedSegment(loc_arg, 2)

\* C21, amended: as above, except that a segment that is empty once
\* trimmed is returned as NULL, not as the empty text (so a string of
\* blanks or of commas only gives NULL city and NULL state/province).
C21_LocationComponents ==
    Called =>
        /\ ReturnsAllKeys
        /\ (~IsNull(loc_arg) /\ loc_arg # EmptyStr) =>
              /\ loc_result.city = NullIfEmpty(TrimmedSegment(loc_arg, 1))
              /\ loc_result.state_province =
                    IF NumSegments(loc_arg) = 1 THEN NULL
                    ELSE NullIfEmpty(TrimmedSegment(loc_arg, 2))

\* a string of three segments with an empty second one has been split
C21_Witness ==
    /\ Called
    /\ NumSegments(loc_arg) = 3
    /\ loc_result.city = <<"a">>
    /\ IsNull(loc_result.state_province)
    /\ TrimmedSegment(loc_arg, 3) = <<"a">>

\* the batch size of a batched stage
BatchOf(m) ==
    IF m = "populate_jobs" THEN BATCH_SIZE ELSE BATCH_SIZE * SKILL_BATCH_FACTOR

\* the number of batches the stage has committed in the current run
BatchesDone(m) == Cardinality({i \in 1..Len(commits) : commits[i] = m})

\* ceil(n / b)
CeilDiv(n, b) == (n + b - 1) \div b

\* C22: in populate_jobs and populate_job_skills the batches run at the
\* offsets 0, B, 2B, ... in increasing order, each batch is committed
\* before the next starts, the total is read once before the first batch
\* and not recomputed, and the loop ends after ceil(total / B) batches.
C22_BatchesInOrder ==
    /\ []((pc \in BatchedMethods /\ step = 1) =>
             (offset = BatchOf(pc) * BatchesDone(pc) /\ tx = db /\ open = 0))
    /\ [][(pc \in BatchedMethods /\ step = 1 /\ pc' = pc) =>
             /\ total_rows' = total_rows
             /\ \/ offset' = offset /\ commits' = commits
                \/ /\ offset < total_rows
                   /\ offset' = offset + BatchOf(pc)
                   /\ commits' = Append(commits, pc)]_vars
    /\ [][(pc \in BatchedMethods /\ step = 0) => BatchesDone(pc) = 0]_vars
    /\ [][(pc \in BatchedMethods /\ pc' \notin {pc, "failed"}) =>
             BatchesDone(pc) = CeilDiv(total_rows, BatchOf(pc))]_vars

\* the loop of populate_job_skills has ended after two batches, the second
\* one not full
C22_Witness ==
    /\ LoopEnded
    /\ pc = "populate_job_skills"
    /\ total_rows = 3
    /\ BatchOf(pc) = 2
    /\ BatchesDone(pc) = 2
    /\ offset = 4

\* the stages that keep their connection between two steps
HoldingStages == {"delete_previous_info", "populate_skill_categories_and_skills"}

\* C23: at every point of a run at most one connection is held; every
\* populator, and every batch of the fact and bridge populators, has
\* released its connection before the next connection is acquired, so no
\* connection is held when control passes from one stage to the next.
C23_OneConnection ==
    /\ [](open \in {0, 1})
    /\ [](open = 1 => pc \in HoldingStages)
    /\ [](pc \in BatchedMethods => open = 0)
    /\ [][pc' # pc => (open = 0 \/ pc \in HoldingStages) /\ open' = 0]_vars

\* in a second run the skills stage holds its connection between its two
\* commits
C23_Witness ==
    /\ runs = 2
    /\ pc = "populate_skill_categories_and_skills"
    /\ step = 1
    /\ open = 1

\* the positions of the semicolons of a text
SemicolonPositions(x) == {i \in 1..Len(x) : x[i] = ";"}

\* the position of the n-th semicolon: 0 for n = 0, one past the end when
\* the text has fewer
SemicolonAt(x, n) ==
    IF n = 0 THEN 0
    ELSE IF n > Cardinality(SemicolonPositions(x)) THEN Len(x) + 1
    ELSE CHOOSE i \in SemicolonPositions(x) :
             Cardinality({j \in SemicolonPositions(x) : j < i}) = n - 1

NotEmpty(x) == x # EmptyStr

\* the non-empty statements of a file, in file order
StatementsOf(x) ==
    SelectSeq([n \in 1..(Cardinality(SemicolonPositions(x)) + 1) |->
                  PyStrip(SubSeq(x, SemicolonAt(x, n - 1) + 1, SemicolonAt(x, n) - 1))],
              NotEmpty)

\* a is a prefix of b
IsPrefix(a, b) == Len(a) <= Len(b) /\ SubSeq(b, 1, Len(a)) = a

\* C24: execute_sql_file executes the non-empty statements of the file in
\* file order on one connection and commits once after the last one,
\* returning True; if reading the file or a statement fails it returns
\* False (it does not raise) and none of the file's statements is
\* committed.
C24_SqlFileAllOrNothing ==
    /\ [](sql_pc = "loop" =>
             /\ IsPrefix(executed, StatementsOf(sql_file))
             /\ schema = <<>>
             /\ sql_commits = 0)
    /\ [](sql_result = "True" =>
             /\ sql_file # Missing
             /\ schema = StatementsOf(sql_file)
             /\ sql_commits = 1)
    /\ [](sql_result = "False" => (schema = <<>> /\ sql_commits = 0))
    /\ [](sql_pc = "returned" <=> sql_result \in {"True", "False"})
    /\ [][sql_commits' # sql_commits =>
             (executed = StatementsOf(sql_file) /\ sql_result' = "True")]_vars

\* a file of two different statements around an empty one has been
\* committed
C24_Witness ==
    /\ sql_result = "True"
    /\ sql_file = <<"b", ";", ";", "a">>
    /\ schema = << <<"b">>, <<"a">> >>

Ids(T) == {r.id : r \in T}

\* a foreign key is NULL or the id of a row of the referenced table
References(fk, T) == fk = NoId \/ fk \in Ids(T)

\* the foreign keys of the store t all reference existing rows
ReferentialIntegrity(t) ==
    /\ \A i \in 1..Len(t.job_skills) :
          /\ t.job_skills[i].job_id \in Ids(t.jobs)
          /\ t.job_skills[i].skill_id \in Ids(t.skills)
    /\ \A j \in t.jobs :
          /\ References(j.company_id, t.companies)
          /\ References(j.location_id, t.locations)
          /\ References(j.platform_id, t.platforms)
          /\ References(j.schedule_type_id, t.schedule_types)
    /\ \A k \in t.skills : References(k.category_id, t.skill_categories)

\* C25: in every committed state reachable during purge and rebuild every
\* bridge row references an existing job and an existing skill, every
\* non-NULL foreign key of a job references an existing dimension row and
\* every non-NULL category id of a skill references an existing category.
C25_ReferentialIntegrity == ReferentialIntegrity(db)

\* a second run has committed bridge rows, a job with a company and a
\* skill with a category
C25_Witness ==
    /\ runs = 2
    /\ db.job_skills # <<>>
    /\ \E j \in db.jobs : j.company_id # NoId /\ j.location_id # NoId
    /\ \E k \in db.skills : k.category_id # NoId

\* the table T holds the rows of the select sel, each once
HoldsExactly(T, sel) ==
    /\ Cardinality(T) = Len(sel)
    /\ {[c \in (DOMAIN r) \ {"id"} |-> r[c]] : r \in T} = Range(sel)

\* C26: after a further complete run on the same staging
\* snapshot the jobs table and the bridge table hold the same rows,
\* ignoring surrogate ids, as after the run before, and a populate_jobs
\* repeated without a purge adds every selected job once more.
C26_FactsDoNotAccumulate ==
    /\ (RunComplete /\ fact_snap.valid) => FactContents(db) = fact_snap
    /\ RunComplete =>
          \A sel \in JobsSelects(db, 1) :
              LET again == [db EXCEPT !.jobs = InsertJobs(@, sel)]
              IN /\ Cardinality(again.jobs) = Cardinality(db.jobs) + Len(sel)
                 /\ HoldsExactly(db.jobs, sel) =>
                        \A c \in DOMAIN FactContents(db).jobs :
                            FactContents(again).jobs[c] = 2 * FactContents(db).jobs[c]

\* the phase called name has ended with success
Succeeded(name) == \E i \in 1..Len(phases) : phases[i] = [name |-> name, ok |-> TRUE]

\* the phase called name has ended
Ended(name) == \E i \in 1..Len(phases) : phases[i].name = name

\* C27: in JobPipeline.run no phase starts after an earlier phase failed:
\* rows are loaded into staging only after schema setup succeeded and
\* validation passed, the transformation starts only after ingestion
\* succeeded or, in only-transformation mode, directly without setup and
\* ingestion, and run returns True only if every phase it executed
\* succeeded.
C27_NoPhaseAfterFailure ==
    /\ \A i \in 1..Len(phases) :
          ~phases[i].ok =>
              /\ run_pc = "returned"
              /\ \/ i = Len(phases)
                 \/ /\ i = Len(phases) - 1
                    /\ phases[i].name = "validate_data"
                    /\ phases[i + 1] = [name |-> "run_ingestion", ok |-> FALSE]
    /\ (~Succeeded("setup_database") /\ ~only_transformation) =>
          run_pc \in {"run", "test_connection", "schema_exists",
                      "execute_sql_file", "returned"}
    /\ (run_pc = "load_to_staging" \/ loaded > 0) =>
          (Succeeded("setup_database") /\ Succeeded("validate_data"))
    /\ (run_pc = "run_transformation" \/ pc # "idle") =>
          (only_transformation \/ Succeeded("run_ingestion"))
    /\ only_transformation =>
          /\ ~Ended("setup_database")
          /\ ~Ended("run_ingestion")
          /\ sql_pc = "idle"
          /\ loaded = 0
    /\ run_result = "True" =>
          /\ \A i \in 1..Len(phases) : phases[i].ok
          /\ Succeeded("run_transformation")
          /\ result = "True"
    /\ (run_result # "none") <=> (run_pc = "returned")

\* a full run has set up the schema, loaded two rows in two chunks,
\* transformed them and returned True
C27_Witness ==
    /\ ~only_transformation
    /\ run_result = "True"
    /\ loaded = 2
    /\ schema # <<>>
    /\ db.jobs # {}
    /\ closed

====
